---- MODULE Spec2Model ----
(***************************************************************************)
(* Model of src/main.rs: the iced application App (UI thread: update,     *)
(* view, Waveform::draw) and the cpal input callbacks (one audio thread   *)
(* per stream) that hand sample blocks to the renderer over an            *)
(* std::sync::mpsc channel.                                                *)
(*                                                                         *)
(* The UI thread runs one handler at a time.  The SelectedDevice handler  *)
(* is split at the calls into the audio host (pause, channel(),           *)
(* output_devices, default_input_config, build_input_stream, the          *)
(* assignment that drops the old stream, play), because the audio         *)
(* callback threads run between those calls.  The other handlers touch    *)
(* only App's own fields and are single steps.                            *)
(***************************************************************************)
EXTENDS Integers, Sequences, FiniteSets, TLC

(* ---------------------------------------------------------------- bounds *)

\* SelectedDevice messages handled in one run (each makes one stream id).
MaxSelect == 2

\* Sample blocks the audio callbacks collect in one run.
MaxBlocks == 2

\* Samples in a block given to Waveform::draw.
MaxLen == 3

\* The f32 samples are the amplitudes k / Scale, k in -Scale .. Scale.
Scale == 2

\* Width and height of the canvas bounds are 0 .. MaxSide.
MaxSide == 2

(* ------------------------------------------------------ the audio host  *)

\* The devices the host may hold, in the host's enumeration order.
DeviceOrder == <<"MonitorA", "MonitorB", "Speakers", "Mic">>

Devices == {DeviceOrder[i] : i \in DOMAIN DeviceOrder}

\* cpal: a device is an output device when it has an output configuration,
\* and default_input_config() succeeds when it has an input configuration.
SupportsOutput(d) == d \in {"MonitorA", "MonitorB", "Speakers"}

SupportsInput(d) == d \in {"MonitorA", "MonitorB", "Mic"}

\* Option::None of App.output_stream; stream ids start at 1.
NoStream == 0

None == "None"

NoBlock == [src |-> 0, n |-> 0]

VARIABLES
  theme,                \* App.theme: "Dark" | "Green"
  show_output_modal,    \* App.show_output_modal
  output_device_names,  \* App.output_device_names: Vec<String>
  page,                 \* App.page: "Main" | "Waveform"
  output_stream,        \* App.output_stream: NoStream or a stream id
  output_sender,        \* App.output_sender: id of the channel it sends into
  output_reciever,      \* App.output_reciever: id of the channel it reads
  rx_queue,             \* the blocks queued in the channel of output_reciever
  streams,              \* live cpal::Stream handles: id -> record
  present,              \* devices the host holds now
  uiPc,                 \* position of the UI thread
  sel,                  \* the SelectedDevice handler's locals
  failure,              \* the panic message kind of the UI thread, or None
  lastDrawn,            \* the block the last Waveform::draw received
  errored,              \* live stream ids err_fn has reported an error for
  nsel,                 \* SelectedDevice messages handled so far
  nblocks,              \* blocks collected so far
  drawData,             \* Waveform::draw: data, the samples of the block drawn
  drawBounds,           \* Waveform::draw: bounds (width and height)
  drawPath,             \* Waveform::draw: the commands given to path_builder
  drawn,                \* Waveform::draw has built the path of drawData
  sent,                 \* history: the blocks tx.send has queued so far
  received              \* history: the blocks recv() has returned, in order

vars == <<theme, show_output_modal, output_device_names, page, output_stream,
          output_sender, output_reciever, rx_queue, streams, present, uiPc,
          sel, failure, lastDrawn, errored, nsel, nblocks,
          drawData, drawBounds, drawPath, drawn, sent, received>>

\* The locals of one Waveform::draw, used by the specification of the path.
drawVars == <<drawData, drawBounds, drawPath, drawn>>

\* What the callbacks have sent and the draws have received.
histVars == <<sent, received>>

appView == <<theme, show_output_modal, output_device_names, page>>
appAudio == <<output_stream, output_sender, output_reciever>>

Range(s) == {s[i] : i \in DOMAIN s}

\* host.output_devices(): the devices present now that support output,
\* in enumeration order.
OutputDevices(here) ==
  SelectSeq(DeviceOrder, LAMBDA d : d \in here /\ SupportsOutput(d))

NoSel == [device |-> None, prev |-> NoStream, built |-> NoStream,
          pre |-> [stream |-> NoStream, playing |-> FALSE, sender |-> 0, receiver |-> 0],
          calls |-> <<>>]

Alive == uiPc # "panicked"

Idle == uiPc = "idle"

(* ------------------------------------------------------------------ Init *)

\* App::default(): a fresh channel (id 0), no stream, the main page.
Init ==
  /\ theme = "Dark"
  /\ show_output_modal = FALSE
  /\ output_device_names = <<>>
  /\ page = "Main"
  /\ output_stream = NoStream
  /\ output_sender = 0
  /\ output_reciever = 0
  /\ rx_queue = <<>>
  /\ streams = <<>>
  /\ present \in SUBSET Devices
  /\ uiPc = "idle"
  /\ sel = NoSel
  /\ failure = None
  /\ lastDrawn = NoBlock
  /\ errored = {}
  /\ nsel = 0
  /\ nblocks = 0
  /\ drawData = <<>>
  /\ drawBounds = [width |-> 0, height |-> 0]
  /\ drawPath = <<>>
  /\ drawn = FALSE
  /\ sent = {}
  /\ received = <<>>

(* --------------------------------------------------------------- helpers *)

\* A panic of the UI (main) thread: unwrap()/expect() on an Err or None.
\* The process ends; nothing else changes.
Panic(kind) ==
  /\ uiPc' = "panicked"
  /\ failure' = kind

Log(call) == [sel EXCEPT !.calls = Append(@, call)]

StreamDropped(s) == [x \in DOMAIN streams \ {s} |-> streams[x]]

\* Stream::pause() returning Ok: the host stops delivering buffers to the
\* stream's data callback.
PausedStillPlaying(st) == st

Paused(st) == [st EXCEPT !.state = "paused"]

PlayingNotStarted(st) == st

\* Stream::play() returning Ok.
Playing(st) == [st EXCEPT !.state = "playing"]

\* build_input_stream(): a stream for device d whose data callback owns the
\* clone tx of App.output_sender.
NewStream(d, tx) ==
  [dev |-> d, tx |-> tx, state |-> "built", cb |-> "idle", data |-> NoBlock]

(* --------------------------------------------- App::update, single steps *)

\* Message::ShowOutputModal: show the overlay and snapshot the names of the
\* host's output devices.  output_devices() and name() are unwrapped.
ShowOutputModal ==
  /\ Idle /\ page = "Main" /\ ~show_output_modal
  /\ \E r \in {"ok", "DevicesError", "DeviceNameError"} :
       IF r = "ok" \/ (r = "DeviceNameError" /\ OutputDevices(present) = <<>>)
       THEN /\ show_output_modal' = TRUE
            /\ output_device_names' = OutputDevices(present)
            /\ UNCHANGED <<theme, page, appAudio, rx_queue, streams, present,
                           uiPc, sel, failure, lastDrawn, errored, nsel, nblocks>>
       ELSE /\ show_output_modal' = TRUE
            /\ Panic(r)
            /\ UNCHANGED <<theme, output_device_names, page, appAudio, rx_queue,
                           streams, present, sel, lastDrawn, errored, nsel, nblocks>>
  /\ UNCHANGED <<drawVars, histVars>>

\* App::hide_modal
hide_modal == show_output_modal' = FALSE

HideOutputModalForgets ==
  /\ Idle /\ page = "Main" /\ show_output_modal
  /\ hide_modal
  /\ output_device_names' = <<>>
  /\ UNCHANGED <<theme, page, appAudio, rx_queue, streams,
                 present, uiPc, sel, failure, lastDrawn, errored, nsel, nblocks>>
  /\ UNCHANGED <<drawVars, histVars>>

\* Message::HideOutputModal, sent by the modal's on_blur.
HideOutputModal ==
  /\ Idle /\ page = "Main" /\ show_output_modal
  /\ hide_modal
  /\ UNCHANGED <<theme, output_device_names, page, appAudio, rx_queue, streams,
                 present, uiPc, sel, failure, lastDrawn, errored, nsel, nblocks>>
  /\ UNCHANGED <<drawVars, histVars>>

\* Message::Tick: Command::none().
Tick ==
  /\ Idle
  /\ UNCHANGED vars

\* Message::Event, Tab pressed: a focus command, no field of App changes.
EventTab ==
  /\ Idle
  /\ UNCHANGED vars

EventEscapeStops ==
  /\ Idle
  /\ IF page = "Main"
     THEN /\ hide_modal
          /\ theme' = "Dark"
          /\ page' = page
          /\ UNCHANGED streams
     ELSE /\ page' = "Main"
          /\ theme' = "Green"
          /\ show_output_modal' = show_output_modal
          /\ streams' = [streams EXCEPT ![output_stream] = Paused(@)]
  /\ UNCHANGED <<output_device_names, appAudio, rx_queue, present,
                 uiPc, sel, failure, lastDrawn, errored, nsel, nblocks>>
  /\ UNCHANGED <<drawVars, histVars>>

\* Message::Event, Escape pressed.
EventEscape ==
  /\ Idle
  /\ IF page = "Main"
     THEN /\ hide_modal
          /\ theme' = "Dark"
          /\ page' = page
     ELSE /\ page' = "Main"
          /\ theme' = "Green"
          /\ show_output_modal' = show_output_modal
  /\ UNCHANGED <<output_device_names, appAudio, rx_queue, streams, present,
                 uiPc, sel, failure, lastDrawn, errored, nsel, nblocks>>
  /\ UNCHANGED <<drawVars, histVars>>

(* ------------------------------ App::update, Message::SelectedDevice(d) *)

\* The message comes from a button of the overlay, one per snapshot name.
\* hide_modal(), then the branch on self.output_stream.
SelStart(d) ==
  /\ Idle /\ page = "Main" /\ show_output_modal
  /\ d \in Range(output_device_names)
  /\ nsel < MaxSelect
  /\ nsel' = nsel + 1
  /\ hide_modal
  /\ sel' = [device |-> d, prev |-> output_stream, built |-> NoStream,
             pre |-> [stream |-> output_stream,
                      playing |-> (output_stream # NoStream
                                   /\ streams[output_stream].state = "playing"),
                      sender |-> output_sender,
                      receiver |-> output_reciever],
             calls |-> <<>>]
  /\ uiPc' = IF output_stream # NoStream THEN "sel_pause" ELSE "sel_find"
  /\ UNCHANGED <<theme, output_device_names, page, appAudio, rx_queue, streams,
                 present, failure, lastDrawn, errored, nblocks>>
  /\ UNCHANGED <<drawVars, histVars>>

\* output_stream.pause().unwrap()
SelPause ==
  /\ uiPc = "sel_pause"
  /\ \E ok \in BOOLEAN :
       IF ok
       THEN /\ streams' = [streams EXCEPT ![output_stream] = Paused(@)]
            /\ sel' = Log(<<"pause", output_stream>>)
            /\ uiPc' = "sel_channel"
            /\ UNCHANGED failure
       ELSE /\ Panic("PauseStreamError")
            /\ UNCHANGED <<streams, sel>>
  /\ UNCHANGED <<appView, appAudio, rx_queue, present, lastDrawn, errored,
                 nsel, nblocks>>
  /\ UNCHANGED <<drawVars, histVars>>

SelChannelKeepsChannel ==
  /\ uiPc = "sel_channel"
  /\ uiPc' = "sel_find"
  /\ UNCHANGED <<appView, appAudio, rx_queue, streams, present, sel, failure,
                 lastDrawn, errored, nsel, nblocks>>
  /\ UNCHANGED <<drawVars, histVars>>

SelChannelKeepsSender ==
  /\ uiPc = "sel_channel"
  /\ output_reciever' = nsel
  /\ rx_queue' = <<>>
  /\ uiPc' = "sel_find"
  /\ UNCHANGED <<appView, output_stream, output_sender, streams, present, sel,
                 failure, lastDrawn, errored, nsel, nblocks>>
  /\ UNCHANGED <<drawVars, histVars>>

\* let (tx, rx) = mpsc::channel(); both endpoints of App are replaced.  The
\* old receiver has no other owner and is dropped with the blocks it queued.
SelChannel ==
  /\ uiPc = "sel_channel"
  /\ output_sender' = nsel
  /\ output_reciever' = nsel
  /\ rx_queue' = <<>>
  /\ uiPc' = "sel_find"
  /\ UNCHANGED <<appView, output_stream, streams, present, sel, failure,
                 lastDrawn, errored, nsel, nblocks>>
  /\ UNCHANGED <<drawVars, histVars>>

\* host.output_devices().unwrap().find(by name).expect(..): a device whose
\* name() fails does not match.
SelFind ==
  /\ uiPc = "sel_find"
  /\ \E r \in {"ok", "DevicesError", "DeviceNameError"} :
       IF r = "ok" /\ sel.device \in Range(OutputDevices(present))
       THEN /\ uiPc' = "sel_config"
            /\ UNCHANGED failure
       ELSE Panic(IF r = "DevicesError" THEN r ELSE "DeviceNotFound")
  /\ UNCHANGED <<appView, appAudio, rx_queue, streams, present, sel,
                 lastDrawn, errored, nsel, nblocks>>
  /\ UNCHANGED <<drawVars, histVars>>

\* device.default_input_config().unwrap()
SelConfig ==
  /\ uiPc = "sel_config"
  /\ IF sel.device \in present /\ SupportsInput(sel.device)
     THEN /\ uiPc' = "sel_build"
          /\ UNCHANGED failure
     ELSE Panic("DefaultStreamConfigError")
  /\ UNCHANGED <<appView, appAudio, rx_queue, streams, present, sel,
                 lastDrawn, errored, nsel, nblocks>>
  /\ UNCHANGED <<drawVars, histVars>>

\* let tx = self.output_sender.clone(); device.build_input_stream(..).unwrap():
\* the right-hand side of the assignment to self.output_stream.
SelBuild ==
  /\ uiPc = "sel_build"
  /\ \E ok \in BOOLEAN :
       IF ok /\ sel.device \in present
       THEN /\ streams' = streams @@ (nsel :> NewStream(sel.device, output_sender))
            /\ sel' = [Log(<<"build", nsel>>) EXCEPT !.built = nsel]
            /\ uiPc' = "sel_assign"
            /\ UNCHANGED failure
       ELSE /\ Panic("BuildStreamError")
            /\ UNCHANGED <<streams, sel>>
  /\ UNCHANGED <<appView, appAudio, rx_queue, present, lastDrawn, errored,
                 nsel, nblocks>>
  /\ UNCHANGED <<drawVars, histVars>>

\* self.output_stream = Some(..): the previous value is dropped here.
\* Dropping a stream joins its audio thread, so it waits for a callback
\* that is under way; the errors reported for the stream go with it.
SelAssign ==
  /\ uiPc = "sel_assign"
  /\ sel.prev # NoStream => streams[sel.prev].cb # "collected"
  /\ output_stream' = sel.built
  /\ streams' = IF sel.prev # NoStream THEN StreamDropped(sel.prev) ELSE streams
  /\ sel' = IF sel.prev # NoStream THEN Log(<<"drop", sel.prev>>) ELSE sel
  /\ uiPc' = "sel_play"
  /\ UNCHANGED <<appView, output_sender, output_reciever, rx_queue, present,
                 failure, lastDrawn, nsel, nblocks>>
  /\ errored' = errored \ {sel.prev}
  /\ UNCHANGED <<drawVars, histVars>>

\* output_stream.play().unwrap(); self.page = Page::Waveform; the theme.
SelPlay ==
  /\ uiPc = "sel_play"
  /\ \E ok \in BOOLEAN :
       IF ok
       THEN /\ streams' = [streams EXCEPT ![output_stream] = Playing(@)]
            /\ sel' = Log(<<"play", output_stream>>)
            /\ page' = "Waveform"
            /\ theme' = "Green"
            /\ uiPc' = "idle"
            /\ UNCHANGED failure
       ELSE /\ Panic("PlayStreamError")
            /\ UNCHANGED <<streams, sel, page, theme>>
  /\ UNCHANGED <<show_output_modal, output_device_names, appAudio, rx_queue,
                 present, lastDrawn, errored, nsel, nblocks>>
  /\ UNCHANGED <<drawVars, histVars>>

(* ----------------------------------------- view and Waveform::draw (UI) *)

\* App::view on Page::Waveform clones the receiver into a Waveform, and the
\* canvas calls Waveform::draw, which enters self.rx.recv().
DrawBegin ==
  /\ Idle /\ page = "Waveform"
  /\ uiPc' = "draw_recv"
  /\ UNCHANGED <<appView, appAudio, rx_queue, streams, present, sel, failure,
                 lastDrawn, errored, nsel, nblocks>>
  /\ UNCHANGED <<drawVars, histVars>>

\* A sender of channel c lives: App.output_sender, or the clone owned by the
\* data callback of a live stream.
HasSender(c) ==
  output_sender = c \/ \E s \in DOMAIN streams : streams[s].tx = c

DrawRecvPeeks ==
  /\ uiPc = "draw_recv"
  /\ rx_queue # <<>>
  /\ lastDrawn' = Head(rx_queue)
  /\ received' = Append(received, Head(rx_queue))
  /\ uiPc' = "idle"
  /\ UNCHANGED <<appView, appAudio, rx_queue, streams, present, sel, failure,
                 errored, nsel, nblocks>>
  /\ UNCHANGED <<drawVars, sent>>

\* recv() waits while the queue is empty and a sender lives; it returns the
\* oldest queued block, or Err (unwrapped) once no sender is left.
DrawRecv ==
  /\ uiPc = "draw_recv"
  /\ rx_queue # <<>> \/ ~HasSender(output_reciever)
  /\ IF rx_queue # <<>>
     THEN /\ lastDrawn' = Head(rx_queue)
          /\ rx_queue' = Tail(rx_queue)
          /\ received' = Append(received, Head(rx_queue))
          /\ uiPc' = "idle"
          /\ UNCHANGED failure
     ELSE /\ Panic("RecvError")
          /\ UNCHANGED <<lastDrawn, rx_queue, received>>
  /\ UNCHANGED <<appView, appAudio, streams, present, sel, errored, nsel,
                 nblocks>>
  /\ UNCHANGED <<drawVars, sent>>

(* --------------------------------------------------- the audio threads *)

\* The host calls the data callback of a playing stream with a buffer:
\* input_data_fn copies the samples into output_data.
CallbackCollect(s) ==
  /\ Alive
  /\ s \in DOMAIN streams
  /\ streams[s].state = "playing" /\ streams[s].cb = "idle"
  /\ streams[s].dev \in present
  /\ nblocks < MaxBlocks
  /\ nblocks' = nblocks + 1
  /\ streams' = [streams EXCEPT ![s].cb = "collected",
                                ![s].data = [src |-> s, n |-> nblocks + 1]]
  /\ UNCHANGED <<appView, appAudio, rx_queue, present, uiPc, sel, failure,
                 lastDrawn, errored, nsel>>
  /\ UNCHANGED <<drawVars, histVars>>

\* tx.send(output_data).unwrap(): the channel is unbounded, so send queues
\* the block, or fails when the receiver was dropped and the unwrap panics
\* on the audio thread.
CallbackSend(s) ==
  /\ Alive
  /\ s \in DOMAIN streams
  /\ streams[s].cb = "collected"
  /\ IF streams[s].tx = output_reciever
     THEN /\ rx_queue' = Append(rx_queue, streams[s].data)
          /\ sent' = sent \cup {streams[s].data}
          /\ streams' = [streams EXCEPT ![s].cb = "idle", ![s].data = NoBlock]
     ELSE /\ streams' = [streams EXCEPT ![s].cb = "panicked", ![s].data = NoBlock]
          /\ UNCHANGED <<rx_queue, sent>>
  /\ UNCHANGED <<appView, appAudio, present, uiPc, sel, failure, lastDrawn,
                 errored, nsel, nblocks>>
  /\ UNCHANGED <<drawVars, received>>

\* err_fn: the host reports an error of a stream; it is printed to stderr.
StreamError(s) ==
  /\ Alive
  /\ s \in DOMAIN streams
  /\ streams[s].state # "built"
  /\ s \notin errored
  /\ errored' = errored \cup {s}
  /\ UNCHANGED <<appView, appAudio, rx_queue, streams, present, uiPc, sel,
                 failure, lastDrawn, nsel, nblocks>>
  /\ UNCHANGED <<drawVars, histVars>>

\* The host gains or loses a device.
DeviceChange(d) ==
  /\ Alive
  /\ present' = IF d \in present THEN present \ {d} ELSE present \cup {d}
  /\ UNCHANGED <<appView, appAudio, rx_queue, streams, uiPc, sel, failure,
                 lastDrawn, errored, nsel, nblocks>>
  /\ UNCHANGED <<drawVars, histVars>>

(* ------------------------------------------------------------ the system *)

StreamIds == 1..(MaxSelect + 1)

Next ==
  \/ ShowOutputModal
  \/ HideOutputModal
  \/ Tick
  \/ EventTab
  \/ EventEscape
  \/ \E d \in Devices : SelStart(d)
  \/ SelPause
  \/ SelChannel
  \/ SelFind
  \/ SelConfig
  \/ SelBuild
  \/ SelAssign
  \/ SelPlay
  \/ DrawBegin
  \/ DrawRecv
  \/ \E s \in StreamIds : CallbackCollect(s)
  \/ \E s \in StreamIds : CallbackSend(s)
  \/ \E s \in StreamIds : StreamError(s)
  \/ \E d \in Devices : DeviceChange(d)

Spec == Init /\ [][Next]_vars

(* ------------------------------------- Waveform::draw, building the path *)

\* A number of the draw is the fraction num / den; den = 0 stands for the
\* non-finite f32 a division by zero gives.
Frac(n, d) == [num |-> n, den |-> d]

\* let slice_width = bounds.width / data.len() as f32
SliceWidth(bounds, data) == Frac(bounds.width, Len(data))

\* let y = (v * bounds.height) / 2. + bounds.height / 2., for the sample
\* v / Scale: (v * height / Scale) / 2 + height / 2 over the denominator
\* 2 * Scale.
AmplitudeYNoOffset(v, height) == Frac(v * height, 2 * Scale)

AmplitudeY(v, height) == Frac(v * height + Scale * height, 2 * Scale)

\* if i == 0 { move_to } else { line_to }, i counted from 1 here.
PathOpAlwaysLine(i) == "line_to"

PathOp(i) == IF i = 1 THEN "move_to" ELSE "line_to"

\* for (i, v) in data.iter().enumerate(): one command per sample at (x, y),
\* then x += slice_width.  x is kept over the denominator of slice_width.
RECURSIVE DrawLoop(_, _, _, _, _, _)
DrawLoop(data, i, x, slice_width, height, path) ==
  IF i > Len(data)
  THEN path
  ELSE DrawLoop(data, i + 1,
                Frac(x.num + slice_width.num, slice_width.den),
                slice_width, height,
                Append(path, [op |-> PathOp(i), x |-> x,
                              y |-> AmplitudeY(data[i], height)]))

\* The commands path_builder has received when build() is called.
BuildPath(data, bounds) ==
  DrawLoop(data, 1, Frac(0, Len(data)), SliceWidth(bounds, data),
           bounds.height, <<>>)

Amplitudes == (0 - Scale)..Scale

Blocks == UNION {[1..n -> Amplitudes] : n \in 0..MaxLen}

BoundsSizes == [width : 0..MaxSide, height : 0..MaxSide]

appVars == <<theme, show_output_modal, output_device_names, page, output_stream,
             output_sender, output_reciever, rx_queue, streams, present, uiPc,
             sel, failure, lastDrawn, errored, nsel, nblocks>>

\* A draw of the waveform page that has received the block drawData.
RenderInit ==
  /\ theme = "Green"
  /\ show_output_modal = FALSE
  /\ output_device_names = <<>>
  /\ page = "Waveform"
  /\ output_stream = NoStream
  /\ output_sender = 0
  /\ output_reciever = 0
  /\ rx_queue = <<>>
  /\ streams = <<>>
  /\ present = {}
  /\ uiPc = "draw_recv"
  /\ sel = NoSel
  /\ failure = None
  /\ lastDrawn = NoBlock
  /\ errored = {}
  /\ nsel = 0
  /\ nblocks = 0
  /\ drawData \in Blocks
  /\ drawBounds \in BoundsSizes
  /\ drawPath = <<>>
  /\ drawn = FALSE
  /\ sent = {}
  /\ received = <<>>

\* Waveform::draw from Frame::new to path_builder.build().
DrawPath ==
  /\ ~drawn
  /\ drawPath' = BuildPath(drawData, drawBounds)
  /\ drawn' = TRUE
  /\ UNCHANGED <<appVars, histVars, drawData, drawBounds>>

RenderNext == DrawPath

RenderSpec == RenderInit /\ [][RenderNext]_vars

(* ---------------------------------------------------------------- claims *)

\* The position of call c in the call log of the current SelectedDevice
\* handler, 0 when it was not made.
CallIndex(c) ==
  IF \E i \in DOMAIN sel.calls : sel.calls[i] = c
  THEN CHOOSE i \in DOMAIN sel.calls : sel.calls[i] = c
  ELSE 0

\* C1: in every execution of the SelectedDevice handler that found a
\* previous stream, the pause of the previous stream comes before the build
\* and the play of the new stream in the handler's call order, and while the
\* handler looks up, configures, builds or holds the new stream the previous
\* stream is not playing.
C1_StopBeforeStart ==
  sel.prev # NoStream =>
    /\ \A i \in DOMAIN sel.calls :
         sel.calls[i][1] \in {"build", "play"} =>
           /\ CallIndex(<<"pause", sel.prev>>) > 0
           /\ CallIndex(<<"pause", sel.prev>>) < i
    /\ uiPc \in {"sel_channel", "sel_find", "sel_config", "sel_build", "sel_assign"} =>
         /\ sel.prev \in DOMAIN streams
         /\ streams[sel.prev].state = "paused"
    /\ \A s \in DOMAIN streams :
         s # sel.prev /\ sel.prev \in DOMAIN streams =>
           streams[sel.prev].state # "playing"

\* C1 witness: a re-selection ran to its end: the previous stream was paused,
\* the new one was built, the previous one dropped, the new one played.
C1_Witness ==
  /\ uiPc = "idle"
  /\ sel.prev # NoStream
  /\ sel.calls = <<<<"pause", sel.prev>>, <<"build", sel.built>>,
                   <<"drop", sel.prev>>, <<"play", sel.built>>>>
  /\ streams[output_stream].state = "playing"

\* C2: at most one stream handle is held on the audio host in every
\* reachable state, the states inside a re-selection included.
C2_AtMostOneStream == Cardinality(DOMAIN streams) <= 1

\* C3: a selection of a device the host no longer holds, made while a
\* session was active, ends in DeviceNotFound and leaves that session
\* untouched: its stream is still playing and App holds the same sender and
\* receiver as before the selection.
C3_NotFoundLeavesSession ==
  (/\ failure = "DeviceNotFound"
   /\ sel.device \notin present
   /\ sel.pre.stream # NoStream
   /\ sel.pre.playing) =>
    /\ sel.pre.stream \in DOMAIN streams
    /\ streams[sel.pre.stream].state = "playing"
    /\ output_sender = sel.pre.sender
    /\ output_reciever = sel.pre.receiver

\* C4: the receive of a draw never blocks: the UI thread is never inside
\* recv() with an empty queue and a live sender to wait for.
C4_DrawNeverBlocks ==
  ~(uiPc = "draw_recv" /\ rx_queue = <<>> /\ HasSender(output_reciever))

\* C5: a receive of the renderer returns the most recently sent block and
\* discards the older unread ones.
C5_ReceiveReturnsLatest ==
  [][(uiPc = "draw_recv" /\ uiPc' = "idle") =>
       (/\ lastDrawn' = rx_queue[Len(rx_queue)]
        /\ rx_queue' = <<>>)]_vars

\* C6: the send of the capture callback never blocks and never panics: a
\* callback that holds a block can always send it, and no audio thread has
\* panicked.
C6_SendNeverBlocksOrPanics ==
  \A s \in DOMAIN streams :
    /\ streams[s].cb # "panicked"
    /\ (Alive /\ streams[s].cb = "collected") => ENABLED CallbackSend(s)

\* C7: once pause() of a stream has returned, that stream's callback does no
\* further step: it neither starts nor sends a block.
C7_NoCallbackAfterStop ==
  [][\A s \in DOMAIN streams :
       (streams[s].state = "paused" /\ s \in DOMAIN streams') =>
         streams'[s].cb = streams[s].cb]_vars

\* C8: when the selection fails (device not found, no default input
\* configuration, build error, start error) the process keeps running, the
\* overlay is still shown and the page is still the main page.
C8_SelectErrorStaysOnList ==
  failure \in {"DeviceNotFound", "DefaultStreamConfigError",
               "BuildStreamError", "PlayStreamError"} =>
    /\ Alive
    /\ show_output_modal
    /\ page = "Main"

\* C9: after err_fn has reported an error of a stream, the callback of that
\* stream is not called again, so the session produces no further block.
C9_NoBlockAfterStreamError ==
  [][\A s \in errored \cap DOMAIN streams :
       ~(/\ streams[s].cb = "idle"
         /\ s \in DOMAIN streams'
         /\ streams'[s].cb = "collected")]_vars

\* C10: every name of the device list belongs to a device that supports
\* capture, that is, one default_input_config() succeeds for.
C10_ListedDevicesCapture ==
  \A i \in DOMAIN output_device_names : SupportsInput(output_device_names[i])

\* The commands of the path with operation op.
Commands(op) == {i \in DOMAIN drawPath : drawPath[i].op = op}

\* C11: a draw of a block of N >= 0 samples gives the path exactly
\* max(N - 1, 0) line_to commands, one per sample after the first, and one
\* move_to for the first sample; with N = 0 the path is empty and the draw
\* still completes.
C11_SegmentCount ==
  /\ drawn =>
       /\ Cardinality(Commands("line_to")) =
            (IF Len(drawData) = 0 THEN 0 ELSE Len(drawData) - 1)
       /\ Commands("move_to") = (IF Len(drawData) = 0 THEN {} ELSE {1})
       /\ Len(drawPath) = Len(drawData)
  /\ ~drawn => ENABLED DrawPath

\* C11 witness: a block of three samples was drawn with two segments.
C11_Witness ==
  /\ drawn
  /\ Len(drawData) = 3
  /\ Commands("line_to") = {2, 3}

FracLeq(a, b) == a.num * b.den <= b.num * a.den

\* f = n / d
FracIs(f, n, d) == f.num * d = n * f.den

\* a - b as a fraction
FracDiff(a, b) == Frac(a.num * b.den - b.num * a.den, a.den * b.den)

\* C12: for bounds of height H the y of a sample is an affine, symmetric and
\* monotonic function of its amplitude: amplitude 0 is drawn at H / 2, the
\* amplitudes +1 and -1 at the two extremes 0 and H, opposite amplitudes at
\* heights that add up to H, equal amplitude steps give equal y steps, and
\* the order of the y is the order of the amplitudes or its reverse.
C12_AmplitudeMapping ==
  drawn =>
    LET H == drawBounds.height
        N == DOMAIN drawData
        Y(i) == drawPath[i].y
    IN /\ \A i \in N : Y(i).den > 0
       /\ \A i \in N : drawData[i] = 0 => FracIs(Y(i), H, 2)
       /\ \A i \in N : drawData[i] \in {Scale, 0 - Scale} =>
            (FracIs(Y(i), 0, 1) \/ FracIs(Y(i), H, 1))
       /\ \A i, j \in N : (drawData[i] = Scale /\ drawData[j] = 0 - Scale) =>
            FracIs(FracDiff(Y(i), Y(j)), H, 1) \/ FracIs(FracDiff(Y(j), Y(i)), H, 1)
       /\ \A i, j \in N : drawData[i] = 0 - drawData[j] =>
            FracIs(Y(i), H * Y(j).den - Y(j).num, Y(j).den)
       /\ \A i, j, k, l \in N :
            FracDiff(Y(i), Y(j)).num * (drawData[k] - drawData[l]) * FracDiff(Y(k), Y(l)).den
              = FracDiff(Y(k), Y(l)).num * (drawData[i] - drawData[j]) * FracDiff(Y(i), Y(j)).den
       /\ \/ \A i, j \in N : drawData[i] <= drawData[j] => FracLeq(Y(i), Y(j))
          \/ \A i, j \in N : drawData[i] <= drawData[j] => FracLeq(Y(j), Y(i))

\* C12 witness: a block holding the amplitudes 0, +1 and -1 was drawn in
\* bounds of positive height.
C12_Witness ==
  /\ drawn
  /\ drawBounds.height > 0
  /\ {0, Scale, 0 - Scale} \subseteq Range(drawData)

\* A step of Escape on the waveform page.
EscapeOnWaveform == Idle /\ page = "Waveform" /\ page' = "Main"

\* C13: Escape on the waveform page changes the page only: the stream
\* handle, the streams and their playing state, both channel endpoints and
\* the queue are unchanged, and the stream of App is still playing into the
\* channel App reads.
C13_EscapeKeepsSession ==
  [][EscapeOnWaveform =>
       /\ UNCHANGED <<theme, show_output_modal, output_device_names,
                      output_stream, output_sender, output_reciever, rx_queue,
                      streams, uiPc, sel, nsel, nblocks, sent, received>>
       /\ streams'[output_stream'].state = "playing"
       /\ streams'[output_stream'].tx = output_reciever']_vars

\* C13 witness: back on the main page the stream is playing and its callback
\* is running with a block.
C13_Witness ==
  /\ Idle /\ page = "Main"
  /\ output_stream # NoStream
  /\ streams[output_stream].state = "playing"
  /\ streams[output_stream].cb = "collected"

\* A step that dismisses the device list: HideOutputModal, or Escape on the
\* main page with the overlay shown.
Dismiss ==
  /\ Idle /\ page = "Main" /\ show_output_modal
  /\ ~show_output_modal' /\ uiPc' = "idle"

\* C14: dismissing the device list leaves the page, the stream handle and
\* the streams' playing state, the channel endpoints and queue and the
\* device-name snapshot unchanged; of the view state it changes only
\* show_output_modal and, for Escape, the theme (set to Dark).
C14_DismissKeepsSession ==
  [][Dismiss =>
       /\ UNCHANGED <<output_device_names, page, output_stream, output_sender,
                      output_reciever, rx_queue, streams, sel, failure,
                      lastDrawn, errored, nsel, nblocks, sent, received>>
       /\ theme' \in {theme, "Dark"}]_vars

\* C14 witness: the list was dismissed by Escape while a session runs: the
\* theme is Dark again, the snapshot and the playing stream are kept.
C14_Witness ==
  /\ Idle /\ page = "Main" /\ ~show_output_modal
  /\ theme = "Dark"
  /\ output_device_names # <<>>
  /\ output_stream # NoStream
  /\ streams[output_stream].state = "playing"

\* C15: whenever the waveform page is displayed, exactly one stream is
\* alive: the one App.output_stream holds, built for the device selected
\* last and playing, whose callback sends into the channel App reads.
C15_WaveformHasOneSession ==
  page = "Waveform" =>
    /\ output_stream # NoStream
    /\ DOMAIN streams = {output_stream}
    /\ streams[output_stream].state = "playing"
    /\ streams[output_stream].cb # "panicked"
    /\ streams[output_stream].dev = sel.device
    /\ streams[output_stream].tx = output_reciever

\* C15 witness: the waveform page after a re-selection.
C15_Witness ==
  /\ page = "Waveform"
  /\ sel.prev # NoStream
  /\ output_stream = sel.built

\* C16: every block a draw has received was sent by a callback before, and
\* no block was received by two draws.
C16_BlocksConsumedAtMostOnce ==
  /\ \A i \in DOMAIN received : received[i] \in sent
  /\ \A i, j \in DOMAIN received : received[i] = received[j] => i = j
  /\ received # <<>> => lastDrawn = received[Len(received)]

\* C16 witness: one sent block was received by a draw, another was sent and
\* is gone without a draw having received it.
C16_Witness ==
  /\ received # <<>>
  /\ \E b \in sent : b \notin Range(received) /\ b \notin Range(rx_queue)

\* C17: every block a draw receives was sent by the stream App holds, and
\* the queue App reads holds only blocks of the stream that sends into it;
\* so once a re-selection is complete no block of the previous stream is
\* drawn.
C17_DrawnBlocksFromCurrent ==
  [][/\ (uiPc = "draw_recv" /\ uiPc' = "idle") =>
          lastDrawn'.src = output_stream
     /\ \A i \in DOMAIN rx_queue' :
          /\ rx_queue'[i].src \in DOMAIN streams'
          /\ streams'[rx_queue'[i].src].tx = output_reciever'
          /\ (sel'.prev # NoStream /\ output_stream' = sel'.built) =>
               rx_queue'[i].src # sel'.prev]_vars

\* C17 witness: after a re-selection a draw has received a block of the new
\* stream, and a block the previous stream sent was never received.
C17_Witness ==
  /\ sel.prev # NoStream
  /\ output_stream = sel.built
  /\ lastDrawn.src = output_stream
  /\ \E b \in sent : b.src = sel.prev /\ b \notin Range(received)

\* C18: the receiver App holds always has a live sender, App.output_sender
\* of the same channel, and no draw has panicked on a disconnected channel.
C18_ReceiverHasSender ==
  /\ output_sender = output_reciever
  /\ HasSender(output_reciever)
  /\ failure # "RecvError"

\* C18 witness: after a re-selection a draw waits in recv() on an empty
\* queue for a stream whose device is gone.
C18_Witness ==
  /\ uiPc = "draw_recv"
  /\ sel.prev # NoStream
  /\ rx_queue = <<>>
  /\ streams[output_stream].dev \notin present

====
